---- MODULE Spec2Model ----
(***************************************************************************)
(* Daily-Expenses-Tracker: the App component of src/src/App.jsx as a state *)
(* machine.  The React state (user, activeTab, transactions, loading, the  *)
(* form fields, notification), the memoized stats, the pending             *)
(* notification timers and the Firestore collections the component reads   *)
(* and writes are the variables; every callback of the component is an     *)
(* action.                                                                 *)
(*                                                                         *)
(*   authPc   where initAuth stands: "signingIn", "signedIn" or "failed"   *)
(*   sub      the uid whose collection the attached listener follows       *)
(*   timers   the number of showNotification timers not yet fired          *)
(*   store    the documents of each user's transactions collection         *)
(*   txUid    history: the uid of the collection transactions was read from*)
(*   deleted  history: a snapshot that follows a deletion by another       *)
(*            writer has been delivered                                    *)
(*                                                                         *)
(* An await of addDoc or deleteDoc is one step with its continuation: the  *)
(* arguments are built before the call and the continuation reads no state.*)
(* Amounts are integers; fractions and the other numeral forms Number      *)
(* accepts are outside the model.                                          *)
(***************************************************************************)
EXTENDS Integers, Sequences, FiniteSets, TLC

VARIABLES user, activeTab, transactions, loading, amount, type, category,
          notification, stats, timers, authPc, sub, txUid, deleted, store

vars == <<user, activeTab, transactions, loading, amount, type, category,
          notification, stats, timers, authPc, sub, txUid, deleted, store>>

(***************************************************************************)
(* Bounds of the model.                                                    *)
(***************************************************************************)
\* documents the form may put into one collection
MaxDocs == 2
\* documents other writers may put into one collection
MaxForeign == 3
\* notification timers that may be pending at once
MaxTimers == 2
\* milliseconds per day of the model's clock (86400000 scaled down)
DayMs == 2

(***************************************************************************)
(* JavaScript values.  One record shape for every value a document field   *)
(* or an accumulator may hold: a number (finite or NaN), a string (its     *)
(* characters) or undefined (an absent field).                             *)
(***************************************************************************)
Num(k) == [t |-> "number", nan |-> FALSE, n |-> k, s |-> <<>>]

NaN == [t |-> "number", nan |-> TRUE, n |-> 0, s |-> <<>>]

Str(cs) == [t |-> "string", nan |-> FALSE, n |-> 0, s |-> cs]

Undefined == [t |-> "undefined", nan |-> FALSE, n |-> 0, s |-> <<>>]

DigitVal(c) ==
  CASE c = "0" -> 0 [] c = "1" -> 1 [] c = "2" -> 2 [] c = "3" -> 3
    [] c = "4" -> 4 [] c = "5" -> 5 [] c = "6" -> 6 [] c = "7" -> 7
    [] c = "8" -> 8 [] c = "9" -> 9 [] OTHER -> -1

IsDigits(cs) == Len(cs) > 0 /\ \A i \in 1..Len(cs) : DigitVal(cs[i]) >= 0

RECURSIVE DigitsValue(_)
DigitsValue(cs) ==
  IF cs = <<>> THEN 0
  ELSE 10 * DigitsValue(SubSeq(cs, 1, Len(cs) - 1)) + DigitVal(cs[Len(cs)])

\* StringToNumber of a string of sign and decimal digits: "" is 0, a string
\* that is no numeral is NaN.
StringToNumber(cs) ==
  IF cs = <<>> THEN Num(0)
  ELSE IF cs[1] = "-" /\ IsDigits(Tail(cs)) THEN Num(0 - DigitsValue(Tail(cs)))
  ELSE IF IsDigits(cs) THEN Num(DigitsValue(cs))
  ELSE NaN

\* Number(v)
JsNumber(v) ==
  CASE v.t = "number" -> v
    [] v.t = "string" -> StringToNumber(v.s)
    [] OTHER -> NaN

\* a + b on numbers
JsAdd(a, b) == IF a.nan \/ b.nan THEN NaN ELSE Num(a.n + b.n)

\* a - b on numbers
JsSub(a, b) == IF a.nan \/ b.nan THEN NaN ELSE Num(a.n - b.n)

\* !v on a number: 0 and NaN are falsy
Falsy(v) == v.nan \/ v.n = 0

(***************************************************************************)
(* The category vocabulary.                                                *)
(***************************************************************************)
CATEGORIES ==
  [Debit |-> <<"Food", "Rent", "EMI", "Travel", "Bills", "Entertainment",
               "Health", "Shopping">>,
   Credit |-> <<"Salary", "Freelance", "Refunds", "Investment", "Gift">>]

Range(f) == {f[i] : i \in DOMAIN f}

(***************************************************************************)
(* stats: the three reductions over transactions.                          *)
(***************************************************************************)
RECURSIVE Reduce(_, _)
\* ts.reduce((acc, curr) => acc + Number(curr.amount), acc0)
Reduce(ts, acc) ==
  IF ts = <<>> THEN acc
  ELSE Reduce(Tail(ts), JsAdd(acc, JsNumber(Head(ts).amount)))

TotalOfAny(ts, ty) ==
  Reduce(ts, Num(0))

\* transactions.filter((t) => t.type === ty).reduce(..., 0)
TotalOf(ts, ty) ==
  Reduce(SelectSeq(ts, LAMBDA t : t.type = ty), Num(0))

SavingsClamped(totalCredit, totalDebit) ==
  IF JsSub(totalCredit, totalDebit).n < 0 THEN Num(0)
  ELSE JsSub(totalCredit, totalDebit)

\* totalCredit - totalDebit
Savings(totalCredit, totalDebit) ==
  JsSub(totalCredit, totalDebit)

EmptyObject == [k \in {} |-> Num(0)]

\* one step of the byCategory reducer
CategoryStep(acc, curr) ==
  LET c == curr.category
      a0 == IF c \notin DOMAIN acc \/ Falsy(acc[c])
            THEN [k \in DOMAIN acc \cup {c} |-> IF k = c THEN Num(0) ELSE acc[k]]
            ELSE acc
  IN  [a0 EXCEPT ![c] = JsAdd(a0[c], JsNumber(curr.amount))]

RECURSIVE ByCategoryFrom(_, _)
ByCategoryFrom(ts, acc) ==
  IF ts = <<>> THEN acc
  ELSE ByCategoryFrom(Tail(ts), CategoryStep(acc, Head(ts)))

\* transactions.reduce(..., {})
ByCategory(ts) == ByCategoryFrom(ts, EmptyObject)

\* the useMemo callback
ComputeStats(ts) ==
  LET totalCredit == TotalOf(ts, "Credit")
      totalDebit == TotalOf(ts, "Debit")
  IN  [totalCredit |-> totalCredit,
       totalDebit |-> totalDebit,
       savings |-> Savings(totalCredit, totalDebit),
       byCategory |-> ByCategory(ts)]

(***************************************************************************)
(* The snapshot callback's data: snapshot.docs in document-id order, then  *)
(* the in-memory sort, newest first.                                       *)
(***************************************************************************)
RECURSIVE DocsInIdOrder(_)
\* snapshot.docs.map(...): the collection's documents, ordered by id
DocsInIdOrder(S) ==
  IF S = {} THEN <<>>
  ELSE LET d == CHOOSE x \in S : \A y \in S : x.id <= y.id
       IN  <<d>> \o DocsInIdOrder(S \ {d})

\* new Date(date): the day's midnight in milliseconds
DateMs(date) == date * DayMs

\* new Date().toISOString().split("T")[0]: the day of a clock reading
DateOf(now) == now \div DayMs

CompareCreatedAtFirst(a, b) ==
  LET byDate == DateMs(b.date) - DateMs(a.date)
  IN  IF b.createdAt - a.createdAt # 0 THEN b.createdAt - a.createdAt ELSE byDate

\* the comparator: new Date(b.date) - new Date(a.date) || b.createdAt - a.createdAt
Compare(a, b) ==
  LET byDate == DateMs(b.date) - DateMs(a.date)
  IN  IF byDate # 0 THEN byDate ELSE b.createdAt - a.createdAt

\* x put into a sorted sequence behind every element that does not sort after it
InsertSorted(sorted, x) ==
  LET later == {i \in 1..Len(sorted) : Compare(sorted[i], x) > 0}
      k == IF later = {} THEN Len(sorted) + 1
           ELSE CHOOSE i \in later : \A j \in later : i <= j
  IN  SubSeq(sorted, 1, k - 1) \o <<x>> \o SubSeq(sorted, k, Len(sorted))

RECURSIVE SortFrom(_, _)
SortFrom(data, sorted) ==
  IF data = <<>> THEN sorted
  ELSE SortFrom(Tail(data), InsertSorted(sorted, Head(data)))

\* data.sort(comparator): a stable sort
SortNewestFirst(data) == SortFrom(data, <<>>)

(***************************************************************************)
(* The inputs the environment may supply.                                  *)
(***************************************************************************)
NoUser == "null"

Users == {"u1", "u2"}

NoSub == "none"

NoNotification == "null"

Tabs == {"dashboard", "add", "history"}

\* what the number input may hold: "", "5", "-5"
TypedAmounts == {<<>>, <<"5">>, <<"-", "5">>}

\* the category buttons the user presses, besides the first of each type
PressedCategories == {"Rent", "Gift"}

\* the readings of Date.now()
Clock == {0}

\* the ids addDoc may draw
DocIds == 1..MaxDocs

\* the ids other writers may draw
ForeignIds == 1..MaxForeign

\* date and createdAt of the documents other writers put
ForeignTimes == {<<0, 1>>, <<1, 0>>}

\* the recent list of the dashboard: transactions.slice(0, 10)
RecentLimit == 10

\* documents other writers put into a collection: the form does not guard
\* the store, so type, category and amount are whatever was written
ForeignKinds ==
  {<<"Credit", "Salary">>, <<"Debit", "Salary">>, <<"Transfer", "Food">>}

ForeignAmounts == {Num(1), Str(<<"2">>), Undefined}

Doc(id, ty, cat, amt, date, createdAt) ==
  [id |-> id, type |-> ty, category |-> cat, amount |-> amt,
   date |-> date, createdAt |-> createdAt]

InitialStats ==
  [totalCredit |-> Num(0), totalDebit |-> Num(0), savings |-> Num(0),
   byCategory |-> EmptyObject]

(***************************************************************************)
(* Init: the state after the first render.                                 *)
(***************************************************************************)
Init ==
  /\ user = NoUser
  /\ activeTab = "dashboard"
  /\ transactions = <<>>
  /\ loading = TRUE
  /\ amount = <<>>
  /\ type = "Debit"
  /\ category = "Food"
  /\ notification = NoNotification
  /\ stats = InitialStats
  /\ timers = 0
  /\ authPc = "signingIn"
  /\ sub = NoSub
  /\ txUid = NoSub
  /\ deleted = FALSE
  /\ store = [u \in Users |-> {}]

(***************************************************************************)
(* 1. Authentication.                                                      *)
(***************************************************************************)
\* initAuth: the sign-in promise rejects; the catch logs to the console
SignInFails ==
  /\ authPc = "signingIn"
  /\ authPc' = "failed"
  /\ UNCHANGED <<user, activeTab, transactions, loading, amount, type,
                 category, notification, stats, timers, sub, txUid, deleted, store>>

\* initAuth: the sign-in promise resolves
SignInSucceeds ==
  /\ authPc = "signingIn"
  /\ authPc' = "signedIn"
  /\ UNCHANGED <<user, activeTab, transactions, loading, amount, type,
                 category, notification, stats, timers, sub, txUid, deleted, store>>

\* the onAuthStateChanged callback, and the data-sync effect it re-runs:
\* the old listener is unsubscribed, a new one is attached when there is a user
AuthStateChanged(currentUser) ==
  /\ currentUser # user
  /\ user' = currentUser
  /\ sub' = IF currentUser = NoUser THEN NoSub ELSE currentUser
  /\ UNCHANGED <<activeTab, transactions, loading, amount, type, category,
                 notification, stats, timers, authPc, txUid, deleted, store>>

(***************************************************************************)
(* 2. Data sync.                                                           *)
(***************************************************************************)
OnSnapshotDataAppending(docs) ==
  /\ transactions' = transactions \o SortNewestFirst(DocsInIdOrder(docs))
  /\ stats' = ComputeStats(transactions')
  /\ loading' = FALSE

OnSnapshotDataCapped(docs) ==
  /\ transactions' = IF docs = {} THEN <<>>
                     ELSE <<SortNewestFirst(DocsInIdOrder(docs))[1]>>
  /\ stats' = ComputeStats(transactions')
  /\ loading' = FALSE

\* the onSnapshot success callback on a snapshot holding docs, and the
\* render it causes, which recomputes stats
OnSnapshotData(docs) ==
  /\ transactions' = SortNewestFirst(DocsInIdOrder(docs))
  /\ stats' = ComputeStats(transactions')
  /\ loading' = FALSE

\* a snapshot of the subscribed collection is delivered
OnSnapshot ==
  /\ sub # NoSub
  /\ OnSnapshotData(store[sub])
  /\ txUid' = sub
  /\ UNCHANGED <<user, activeTab, amount, type, category, notification,
                 timers, authPc, sub, deleted, store>>

\* the onSnapshot error callback; the listener is dead afterwards
OnSnapshotError ==
  /\ sub # NoSub
  /\ loading' = FALSE
  /\ sub' = NoSub
  /\ UNCHANGED <<user, activeTab, transactions, amount, type, category,
                 notification, stats, timers, authPc, txUid, deleted, store>>

\* another writer adds a document to the subscribed collection and the
\* listener receives the new snapshot
SnapshotAfterAdd(id, kind, amt, at) ==
  /\ sub # NoSub
  /\ Cardinality(store[sub]) < MaxForeign
  /\ \A d \in store[sub] : d.id # id
  /\ store' = [store EXCEPT ![sub] = @ \cup {Doc(id, kind[1], kind[2], amt, at[1], at[2])}]
  /\ OnSnapshotData(store'[sub])
  /\ txUid' = sub
  /\ UNCHANGED <<user, activeTab, amount, type, category, notification,
                 timers, authPc, sub, deleted>>

\* another writer deletes a document of the subscribed collection and the
\* listener receives the new snapshot
SnapshotAfterDelete(id) ==
  /\ sub # NoSub
  /\ \E d \in store[sub] : d.id = id
  /\ store' = [store EXCEPT ![sub] = {d \in @ : d.id # id}]
  /\ OnSnapshotData(store'[sub])
  /\ txUid' = sub
  /\ deleted' = TRUE
  /\ UNCHANGED <<user, activeTab, amount, type, category, notification,
                 timers, authPc, sub>>

\* a render re-evaluates the useMemo callback on the transactions it holds
Rerender ==
  /\ stats' = ComputeStats(transactions)
  /\ UNCHANGED <<user, activeTab, transactions, loading, amount, type,
                 category, notification, timers, authPc, sub, txUid, deleted, store>>

(***************************************************************************)
(* 3. The user interface, rendered once loading is false.                  *)
(***************************************************************************)
ShowNotificationSilent(msg) ==
  /\ notification' = NoNotification
  /\ timers' = timers + 1

\* showNotification: the message, and a 3 second timer that clears it
ShowNotification(msg) ==
  /\ notification' = msg
  /\ timers' = timers + 1

\* a timer set by showNotification fires
Timeout ==
  /\ timers > 0
  /\ notification' = NoNotification
  /\ timers' = timers - 1
  /\ UNCHANGED <<user, activeTab, transactions, loading, amount, type,
                 category, stats, authPc, sub, txUid, deleted, store>>

\* a navigation button
SetActiveTab(tab) ==
  /\ loading = FALSE
  /\ tab # activeTab
  /\ activeTab' = tab
  /\ UNCHANGED <<user, transactions, loading, amount, type, category,
                 notification, stats, timers, authPc, sub, txUid, deleted, store>>

SelectTypeKeepingCategory(ty) ==
  /\ loading = FALSE
  /\ activeTab = "add"
  /\ type' = ty
  /\ category' = category
  /\ UNCHANGED <<user, activeTab, transactions, loading, amount,
                 notification, stats, timers, authPc, sub, txUid, deleted, store>>

\* the Expense and Income buttons
SelectType(ty) ==
  /\ loading = FALSE
  /\ activeTab = "add"
  /\ type' = ty
  /\ category' = CATEGORIES[ty][1]
  /\ UNCHANGED <<user, activeTab, transactions, loading, amount,
                 notification, stats, timers, authPc, sub, txUid, deleted, store>>

\* a category button: one is rendered for each category of the selected type
SelectCategory(cat) ==
  /\ loading = FALSE
  /\ activeTab = "add"
  /\ cat \in Range(CATEGORIES[type])
  /\ category' = cat
  /\ UNCHANGED <<user, activeTab, transactions, loading, amount, type,
                 notification, stats, timers, authPc, sub, txUid, deleted, store>>

\* the amount input's onChange
SetAmount(value) ==
  /\ loading = FALSE
  /\ activeTab = "add"
  /\ value # amount
  /\ amount' = value
  /\ UNCHANGED <<user, activeTab, transactions, loading, type, category,
                 notification, stats, timers, authPc, sub, txUid, deleted, store>>

\* the record handleAddTransaction builds
NewTransaction(id, now) ==
  Doc(id, type, category, JsNumber(Str(amount)), DateOf(now), now)

\* handleAddTransaction, addDoc resolving or rejecting; it returns at once
\* on an empty amount or without a user
HandleAddTransaction(id, now, ok) ==
  /\ loading = FALSE
  /\ activeTab = "add"
  /\ amount # <<>>
  /\ user # NoUser
  /\ timers < MaxTimers
  /\ IF ok
     THEN /\ Cardinality(store[user]) < MaxDocs
          /\ \A d \in store[user] : d.id # id
          /\ store' = [store EXCEPT ![user] = @ \cup {NewTransaction(id, now)}]
          /\ amount' = <<>>
          /\ ShowNotification("Saved to cloud!")
          /\ activeTab' = "dashboard"
     ELSE /\ ShowNotification("Error saving data")
          /\ UNCHANGED <<store, amount, activeTab>>
  /\ UNCHANGED <<user, transactions, loading, type, category, stats,
                 authPc, sub, txUid, deleted>>

\* deleteTransaction of the i-th row of the dashboard's recent list,
\* deleteDoc resolving or rejecting; it returns at once without a user
DeleteTransaction(i, ok) ==
  /\ loading = FALSE
  /\ activeTab = "dashboard"
  /\ i \in 1..Len(transactions)
  /\ i <= RecentLimit
  /\ user # NoUser
  /\ timers < MaxTimers
  /\ IF ok
     THEN /\ store' = [store EXCEPT ![user] = {d \in @ : d.id # transactions[i].id}]
          /\ ShowNotification("Deleted")
     ELSE /\ ShowNotification("Error deleting")
          /\ UNCHANGED store
  /\ UNCHANGED <<user, activeTab, transactions, loading, amount, type,
                 category, stats, authPc, sub, txUid, deleted>>

(***************************************************************************)
(* The application: users sign in and out, the listener follows the        *)
(* signed-in user's collection, records are saved and deleted, and every   *)
(* call to the collaborator may fail.                                      *)
(***************************************************************************)
Next ==
  \/ SignInFails
  \/ SignInSucceeds
  \/ \E u \in Users \cup {NoUser} : AuthStateChanged(u)
  \/ OnSnapshot
  \/ OnSnapshotError
  \/ Timeout
  \/ \E tab \in Tabs : SetActiveTab(tab)
  \/ \E value \in {<<>>, <<"5">>} : SetAmount(value)
  \/ \E id \in DocIds, now \in Clock, ok \in BOOLEAN : HandleAddTransaction(id, now, ok)
  \/ \E i \in 1..MaxDocs, ok \in BOOLEAN : DeleteTransaction(i, ok)

Spec == Init /\ [][Next]_vars

(***************************************************************************)
(* The input form: one user fills it in and saves.                         *)
(***************************************************************************)
FormNext ==
  \/ AuthStateChanged("u1")
  \/ OnSnapshot
  \/ Timeout
  \/ \E tab \in Tabs : SetActiveTab(tab)
  \/ \E ty \in DOMAIN CATEGORIES : SelectType(ty)
  \/ \E cat \in PressedCategories : SelectCategory(cat)
  \/ \E value \in TypedAmounts : SetAmount(value)
  \/ \E id \in DocIds, now \in Clock, ok \in BOOLEAN : HandleAddTransaction(id, now, ok)

FormSpec == Init /\ [][FormNext]_vars

(***************************************************************************)
(* The Aggregator on a live collection: one user's listener receives the   *)
(* snapshots that follow other writers' additions and deletions.           *)
(***************************************************************************)
AggNext ==
  \/ AuthStateChanged("u1")
  \/ \E id \in ForeignIds, kind \in ForeignKinds, amt \in ForeignAmounts, at \in ForeignTimes : SnapshotAfterAdd(id, kind, amt, at)
  \/ \E id \in ForeignIds : SnapshotAfterDelete(id)
  \/ Rerender

AggSpec == Init /\ [][AggNext]_vars

(***************************************************************************)
(* The sums the Aggregator's contract speaks of, taken over the rows of    *)
(* transactions without the reductions above: the amounts are read as      *)
(* numbers and added as numbers add, so a sum over an amount that is no    *)
(* number is NaN.                                                          *)
(***************************************************************************)
RowsOfType(ty) == {i \in 1..Len(transactions) : transactions[i].type = ty}

RowsOfCategory(cat) == {i \in 1..Len(transactions) : transactions[i].category = cat}

NotANumber(i) == JsNumber(transactions[i].amount).nan

RECURSIVE SumOfRows(_)
SumOfRows(rows) ==
  IF rows = {} THEN 0
  ELSE LET i == CHOOSE r \in rows : TRUE
       IN  JsNumber(transactions[i].amount).n + SumOfRows(rows \ {i})

AmountSum(rows) ==
  IF \E i \in rows : NotANumber(i) THEN NaN ELSE Num(SumOfRows(rows))

\* C1: totalCredit is the sum of amount over exactly the rows of type
\* "Credit" and totalDebit the sum over exactly the rows of type "Debit"; a
\* row of any other type adds to neither.
C1_TotalsByType ==
  /\ stats.totalCredit = AmountSum(RowsOfType("Credit"))
  /\ stats.totalDebit = AmountSum(RowsOfType("Debit"))

\* C1 witness: a Credit row, a Debit row and a row of another type, each
\* with a positive amount, have been aggregated.
C1_Witness ==
  /\ stats.totalCredit.n > 0
  /\ stats.totalDebit.n > 0
  /\ \E i \in 1..Len(transactions) :
       /\ transactions[i].type \notin {"Credit", "Debit"}
       /\ ~NotANumber(i)
       /\ JsNumber(transactions[i].amount).n > 0

\* C2: savings is totalCredit minus totalDebit exactly, and is negative
\* whenever the Debit total exceeds the Credit total.
C2_Savings ==
  IF stats.totalCredit.nan \/ stats.totalDebit.nan
  THEN stats.savings = NaN
  ELSE /\ stats.savings = Num(stats.totalCredit.n - stats.totalDebit.n)
       /\ stats.totalDebit.n > stats.totalCredit.n => stats.savings.n < 0

\* C2 witness: the Debit total exceeds the Credit total and savings is
\* below zero.
C2_Witness ==
  /\ ~stats.totalCredit.nan
  /\ ~stats.totalDebit.nan
  /\ stats.totalCredit.n > 0
  /\ stats.totalDebit.n > stats.totalCredit.n
  /\ stats.savings.n < 0

\* C3: byCategory has an entry for exactly the categories that appear in
\* transactions, and each entry is the sum of amount over all rows of that
\* category, whatever their type.
C3_ByCategory ==
  /\ DOMAIN stats.byCategory = {transactions[i].category : i \in 1..Len(transactions)}
  /\ \A cat \in DOMAIN stats.byCategory :
       stats.byCategory[cat] = AmountSum(RowsOfCategory(cat))

\* C4: a row whose amount is missing or not numeric adds 0: the statistics
\* are those of the same sequence with that row's amount replaced by 0.
C4_MissingIsZero ==
  \A i \in 1..Len(transactions) :
    NotANumber(i) =>
      stats = ComputeStats([transactions EXCEPT ![i].amount = Num(0)])

\* the statistics computed from nothing but a collection's documents
StatsOfCollection(docs) == ComputeStats(SortNewestFirst(DocsInIdOrder(docs)))

\* C5: the statistics are those of the latest snapshot alone, recomputing
\* on the unchanged snapshot changes nothing, and after a deletion they are
\* the statistics of the collection that never held the deleted document.
C5_LatestSnapshotOnly ==
  /\ [](stats = StatsOfCollection(store["u1"]))
  /\ [][Rerender => stats' = stats]_vars
  /\ [][\A id \in ForeignIds :
          SnapshotAfterDelete(id) =>
            stats' = StatsOfCollection({d \in store["u1"] : d.id # id})]_vars

\* C5 witness: a deletion has reached the listener and rows with amounts
\* are still held.
C5_Witness ==
  /\ deleted
  /\ transactions # <<>>
  /\ stats.totalCredit.n > 0
  /\ stats.totalDebit.n > 0

(***************************************************************************)
(* The failures of the collaborator.                                       *)
(***************************************************************************)
AddFails == \E id \in DocIds, now \in Clock : HandleAddTransaction(id, now, FALSE)

DeleteFails == \E i \in 1..MaxDocs : DeleteTransaction(i, FALSE)

\* the step shows a notification and starts its timer
Notifies == notification' # NoNotification /\ timers' = timers + 1

\* C6 as stated: every failure (sign-in, snapshot subscription, create,
\* delete) shows a transient notification and leaves transactions and the
\* statistics unchanged.
C6_EveryFailureNotifies ==
  [][(SignInFails \/ OnSnapshotError \/ AddFails \/ DeleteFails) =>
       /\ Notifies
       /\ transactions' = transactions
       /\ stats' = stats]_vars

\* C6 amended: a failed create shows "Error saving data" and a failed delete
\* "Error deleting", each with its timer; a failed sign-in and an error on
\* the snapshot subscription show no notification; all four leave
\* transactions and the statistics unchanged.
C6_WriteFailuresNotify ==
  [][/\ AddFails => notification' = "Error saving data" /\ timers' = timers + 1
     /\ DeleteFails => notification' = "Error deleting" /\ timers' = timers + 1
     /\ (SignInFails \/ OnSnapshotError) =>
          notification' = notification /\ timers' = timers
     /\ (SignInFails \/ OnSnapshotError \/ AddFails \/ DeleteFails) =>
          transactions' = transactions /\ stats' = stats]_vars

\* C6 witness: the sign-in has failed, a delete has failed with records
\* held, and its notification is up.
C6_Witness ==
  /\ authPc = "failed"
  /\ notification = "Error deleting"
  /\ timers > 0
  /\ transactions # <<>>

\* C7: every amount the form has written to the store is a number and is
\* not negative.
C7_StoredAmountNonNegative ==
  \A u \in Users : \A d \in store[u] :
    d.amount.t = "number" /\ ~d.amount.nan /\ d.amount.n >= 0

\* C8: the selected category is one of CATEGORIES[type], and so is the
\* category of every record the form has written.
C8_CategoryOfType ==
  /\ category \in Range(CATEGORIES[type])
  /\ \A u \in Users : \A d \in store[u] :
       d.type \in DOMAIN CATEGORIES /\ d.category \in Range(CATEGORIES[d.type])

\* C8 witness: after type switches and category presses the form stands on
\* Credit and Gift, and records of both types have been written.
C8_Witness ==
  /\ type = "Credit"
  /\ category = "Gift"
  /\ \E d \in store["u1"] : d.type = "Debit" /\ d.category = "Rent"
  /\ \E d \in store["u1"] : d.type = "Credit"

\* C9: the records held in transactions are the signed-in user's: none is
\* held without a user, or from another user's collection.
C9_OnlyCurrentUser ==
  transactions # <<>> => user # NoUser /\ txUid = user

SortTimes == {<<date, createdAt>> : date \in 0..1, createdAt \in 0..3}

SortNext ==
  \/ AuthStateChanged("u1")
  \/ \E id \in ForeignIds, at \in SortTimes : SnapshotAfterAdd(id, <<"Debit", "Food">>, Num(1), at)
  \/ \E id \in ForeignIds : SnapshotAfterDelete(id)

SortSpec == Init /\ [][SortNext]_vars

\* C11: transactions is ordered newest first: of two adjacent records the
\* earlier has a later or equal date, and with equal dates a greater or
\* equal createdAt; createdAt decides nothing between records of different
\* dates: wherever two records stand, the one of the later date comes first.
C11_NewestFirst ==
  /\ \A i \in 1..(Len(transactions) - 1) :
       /\ transactions[i].date >= transactions[i + 1].date
       /\ transactions[i].date = transactions[i + 1].date =>
            transactions[i].createdAt >= transactions[i + 1].createdAt
  /\ \A i, j \in 1..Len(transactions) :
       transactions[i].date > transactions[j].date => i < j

\* C11 witness: a delivered snapshot holds a record of a later date and a
\* smaller createdAt ahead of an older one, and two records of one date in
\* the order of their createdAt, against the order of their ids.
C11_Witness ==
  /\ Len(transactions) = 3
  /\ transactions[1].date > transactions[2].date
  /\ transactions[1].createdAt < transactions[2].createdAt
  /\ transactions[2].date = transactions[3].date
  /\ transactions[2].createdAt > transactions[3].createdAt
  /\ transactions[2].id > transactions[3].id

\* C12: a timer started by an earlier notification never clears a later
\* notification: timers of one delay fire in the order they were started
\* and the message on screen is that of the latest call, so a firing timer
\* that clears a message is the only timer pending, the message's own.
C12_OwnTimerOnly == [][(Timeout /\ notification # NoNotification) => timers = 1]_vars

====
